---- MODULE Spec2Model ----
(***************************************************************************)
(* A model of check.py, the nlp-corpora directory checker.                 *)
(*                                                                         *)
(* The filesystem is a function from paths to nodes.  A path is a sequence *)
(* of names and a name is a sequence of one-character strings, so that     *)
(* glob's hidden-file rule, sorting and Python's substring test are        *)
(* computed on characters.  Error strings are tuples: a tag for the format *)
(* string followed by the values formatted into it.                        *)
(*                                                                         *)
(* The checking process is an unprivileged account that is a member of     *)
(* every group in use.  A system call the kernel refuses for want of a     *)
(* permission raises PermissionError where Python raises it, and is        *)
(* swallowed where Python swallows it (os.path.isdir, os.path.isfile,      *)
(* glob.glob, os.walk).  Nothing in check.py catches an exception, so one  *)
(* raised ends the run: pc = "raised".                                     *)
(*                                                                         *)
(* Not modelled: the byte count get_size returns (only whether du fails),  *)
(* report rendering, uids and gids without a passwd / group entry,         *)
(* symbolic links.                                                         *)
(***************************************************************************)
EXTENDS Integers, Sequences, FiniteSets, TLC

\* ------------------------------------------------------------- bounds

\* Files directly under original/ in the collections check_dir audits.
MaxFiles == 1

\* Files directly under the root of the subtree walk_check is called on alone.
MaxWalkFiles == 1

\* ------------------------------------------------- permission constants

S_IRUSR == 256
S_IXUSR == 64
S_IRGRP == 32
S_IXGRP == 8
S_IROTH == 4
S_IXOTH == 1

RECURSIVE BitOr(_, _)
BitOr(a, b) ==
    IF a = 0 THEN b
    ELSE IF b = 0 THEN a
    ELSE (IF a % 2 = 1 \/ b % 2 = 1 THEN 1 ELSE 0) + 2 * BitOr(a \div 2, b \div 2)

RECURSIVE BitAnd(_, _)
BitAnd(a, b) ==
    IF a = 0 \/ b = 0 THEN 0
    ELSE (IF a % 2 = 1 /\ b % 2 = 1 THEN 1 ELSE 0) + 2 * BitAnd(a \div 2, b \div 2)

\* r--r--r--
PERM_ALL_R == BitOr(BitOr(S_IRUSR, S_IRGRP), S_IROTH)

\* r-xr-xr-x
PERM_ALL_RX == BitOr(BitOr(BitOr(PERM_ALL_R, S_IXUSR), S_IXGRP), S_IXOTH)

\* r--r-----
PERM_UG_R == BitOr(S_IRUSR, S_IRGRP)

\* r-xr-x---
PERM_UG_RX == BitOr(BitOr(PERM_UG_R, S_IXUSR), S_IXGRP)

STD_PERMS ==
    [top |-> PERM_ALL_RX, readme |-> PERM_ALL_R,
     contents_dir |-> PERM_ALL_RX, contents_file |-> PERM_ALL_R]
\* The restricted policy with its contents as open as the standard one's.
RESTRICTED_PERMS_open_contents ==
    [top |-> PERM_ALL_RX, readme |-> PERM_ALL_R,
     contents_dir |-> PERM_ALL_RX, contents_file |-> PERM_ALL_R]

RESTRICTED_PERMS ==
    [top |-> PERM_ALL_RX, readme |-> PERM_ALL_R,
     contents_dir |-> PERM_UG_RX, contents_file |-> PERM_UG_R]

\* ---------------------------------------------------------------- names

N_original == <<"o", "r", "i", "g", "i", "n", "a", "l">>
N_processed == <<"p", "r", "o", "c", "e", "s", "s", "e", "d">>
N_README == <<"R", "E", "A", "D", "M", "E", ".", "m", "d">>
N_corpus == <<"c">>
N_scratch == <<"s", ".", "t", "m", "p">>
N_hidden == <<".", "h">>
N_tk == <<"t", "k">>
N_raw == <<"r">>
N_sub == <<"d">>
N_nobackup == <<"n", "o", "b", "a", "c", "k", "u", "p">>
N_staging == <<"_", "s", "t", "a", "g", "i", "n", "g">>
N_books == <<"b">>

Digits == <<"1", "2", "3", "4", "5", "6", "7", "8", "9">>

\* The name of the i-th data file: "f1", "f2", ...
FileName(i) == <<"f", Digits[i]>>
WHITELIST_DIRS == <<N_nobackup, N_staging>>
WHITELIST_FILES == <<N_README>>
\* The whitelist with README.md forgotten.
CLEAN_DIR_WHITELIST_without_readme == <<N_original, N_processed>>

CLEAN_DIR_WHITELIST == <<N_original, N_processed, N_README>>

\* Python's `x in list`.
InList(x, list) == \E i \in 1..Len(list) : list[i] = x

\* The characters in use, in code point order.
Alphabet ==
    <<" ", "#", ".", "1", "2", "3", "4", "5", "6", "7", "8", "9",
      "A", "D", "E", "M", "R", "_",
      "a", "b", "c", "d", "e", "f", "g", "h", "i", "k", "l", "m", "n", "o", "p",
      "r", "s", "t", "u">>

Ord(ch) == CHOOSE i \in 1..Len(Alphabet) : Alphabet[i] = ch

\* Python's str (and list) comparison: lexicographic, a proper prefix first.
RECURSIVE StrLess(_, _)
StrLess(a, b) ==
    IF b = <<>> THEN FALSE
    ELSE IF a = <<>> THEN TRUE
    ELSE IF Head(a) # Head(b) THEN Ord(Head(a)) < Ord(Head(b))
    ELSE StrLess(Tail(a), Tail(b))

\* Paths compare as their strings joined with "/" do; no name in use holds a
\* character below "/", except ".", which only ever leads a name.
RECURSIVE PathLess(_, _)
PathLess(p, q) ==
    IF q = <<>> THEN FALSE
    ELSE IF p = <<>> THEN TRUE
    ELSE IF Head(p) # Head(q) THEN StrLess(Head(p), Head(q))
    ELSE PathLess(Tail(p), Tail(q))

\* sorted(paths)
RECURSIVE SortPaths(_)
SortPaths(S) ==
    IF S = {} THEN <<>>
    ELSE LET m == CHOOSE x \in S : \A y \in S \ {x} : PathLess(x, y)
         IN <<m>> \o SortPaths(S \ {m})

\* os.path.join(path, name) and os.path.basename(path)
Join(path, name) == Append(path, name)
Basename(path) == path[Len(path)]

\* ' '.join(lines)
RECURSIVE JoinSpace(_)
JoinSpace(lines) ==
    IF lines = <<>> THEN <<>>
    ELSE IF Len(lines) = 1 THEN lines[1]
    ELSE lines[1] \o <<" ">> \o JoinSpace(Tail(lines))
\* Python's `sub in text` on strings.
IsSubstring(sub, text) ==
    \E i \in 0..(Len(text) - Len(sub)) :
        \A j \in 1..Len(sub) : text[i + j] = sub[j]

\* str.strip() for the whitespace in use.
RECURSIVE LStrip(_)
LStrip(s) == IF s # <<>> /\ Head(s) = " " THEN LStrip(Tail(s)) ELSE s

RECURSIVE RStrip(_)
RStrip(s) ==
    IF s # <<>> /\ s[Len(s)] = " " THEN RStrip(SubSeq(s, 1, Len(s) - 1)) ELSE s

Strip(s) == RStrip(LStrip(s))

\* ---------------------------------------------------- the environment

\* pwd.getpwuid(uid).pw_name and grp.getgrgid(gid).gr_name
PwName == (1000 :> "sg01") @@ (1001 :> "mbf")
GrName == (200 :> "nlp") @@ (201 :> "ldc") @@ (202 :> "ghostteam")

Uids == DOMAIN PwName
Gids == DOMAIN GrName

\* groups.json as extract_group_config returns it, and --ok-owners
StdGrps == {"nlp"}
RestrictedGrps == [ldc |-> [desc |-> "ask the LDC contact"]]
OkOwners == {"sg01"}

\* A node of the filesystem: what os.stat reports of it, and a file's lines.
Node(kind, uid, gid, perm, lines) ==
    [kind |-> kind, uid |-> uid, gid |-> gid, perm |-> perm, lines |-> lines]

\* st_mode: the file type bits (S_IFDIR, S_IFREG) and the permission bits.
StMode(n) == (IF n.kind = "dir" THEN 16384 ELSE 32768) + n.perm

\* stat.S_IMODE
S_IMODE(mode) == BitAnd(mode, 4095)

Exists(fs, path) == path \in DOMAIN fs
IsDir(fs, path) == Exists(fs, path) /\ fs[path].kind = "dir"
IsFile(fs, path) == Exists(fs, path) /\ fs[path].kind = "file"

\* The entries of directory `dir`.
Children(fs, dir) ==
    {p \in DOMAIN fs : Len(p) = Len(dir) + 1 /\ SubSeq(p, 1, Len(dir)) = dir}


\* os.chmod(path, perm)
Chmod(fs, path, perm) == [fs EXCEPT ![path].perm = perm]

\* os.getgroups() of the checking process.
ProcGids == Gids

\* The kernel's permission check for process `uid` on node n: the owner's
\* bit if the process owns n, else the group's bit if it is in n's group,
\* else the others' bit.
Permits(n, uid, ubit, gbit, obit) ==
    BitAnd(n.perm, IF n.uid = uid THEN ubit
                   ELSE IF n.gid \in ProcGids THEN gbit
                   ELSE obit) # 0

MayRead(fs, uid, path) == Permits(fs[path], uid, S_IRUSR, S_IRGRP, S_IROTH)
MaySearch(fs, uid, path) == Permits(fs[path], uid, S_IXUSR, S_IXGRP, S_IXOTH)

\* Path resolution: every directory leading to `path` grants search.
\* Directories above the modelled tree do.
Resolves(fs, uid, path) ==
    \A k \in 0..(Len(path) - 1) :
        LET dir == SubSeq(path, 1, k)
        IN Exists(fs, dir) => MaySearch(fs, uid, dir)

\* os.stat(path) raises PermissionError.
StatRaises(fs, uid, path) == ~Resolves(fs, uid, path)

\* os.scandir(dir) succeeds.
CanList(fs, uid, dir) ==
    IsDir(fs, dir) /\ Resolves(fs, uid, dir) /\ MayRead(fs, uid, dir)

\* open(path, 'r') raises PermissionError.
OpenRaises(fs, uid, path) == ~(Resolves(fs, uid, path) /\ MayRead(fs, uid, path))

\* os.path.isdir(path) and os.path.isfile(path): False when os.stat raises.
isdir(fs, uid, path) == Resolves(fs, uid, path) /\ IsDir(fs, path)
isfile(fs, uid, path) == Resolves(fs, uid, path) /\ IsFile(fs, path)

\* glob.glob(os.path.join(dir, '*')): "*" matches no name with a leading dot,
\* and a directory that cannot be listed yields nothing.  glob returns the
\* entries in the directory's order, here the sorted one.
Glob(fs, uid, dir) ==
    IF CanList(fs, uid, dir)
    THEN SortPaths({p \in Children(fs, dir) : Head(Basename(p)) # "."})
    ELSE <<>>

\* ------------------------------------------------------------ functions

\* get_size(path) raises: subprocess.check_output raises CalledProcessError
\* when du exits with a failure, which du does when, at or below `path`, it
\* meets a directory it cannot list or a directory with entries it cannot
\* search.
get_size_raises(fs, uid, path) ==
    \/ ~Resolves(fs, uid, path)
    \/ \E d \in DOMAIN fs :
           /\ IsDir(fs, d)
           /\ Len(d) >= Len(path) /\ SubSeq(d, 1, Len(path)) = path
           /\ \/ ~MayRead(fs, uid, d)
              \/ ~MaySearch(fs, uid, d) /\ Children(fs, d) # {}

\* The paths of `globs` whose basename is not in `whitelist`.
RECURSIVE NotWhitelisted(_, _)
NotWhitelisted(globs, whitelist) ==
    IF globs = <<>> THEN <<>>
    ELSE (IF ~InList(Basename(Head(globs)), whitelist) THEN <<Head(globs)>> ELSE <<>>)
         \o NotWhitelisted(Tail(globs), whitelist)

Range(seq) == {seq[i] : i \in 1..Len(seq)}

get_dirs(fs, uid, base_dir) ==
    LET whitelist == WHITELIST_DIRS \o WHITELIST_FILES
        globs == Glob(fs, uid, base_dir)
        paths == NotWhitelisted(globs, whitelist)
    IN SortPaths(Range(paths))

get_grp(fs, path) == GrName[fs[path].gid]

check_grp(fs, path, want_grp) ==
    LET actual_grp == get_grp(fs, path)
    IN IF want_grp # actual_grp
       THEN [ok |-> FALSE, errors |-> <<<<"group", path, want_grp, actual_grp>>>>]
       ELSE [ok |-> TRUE, errors |-> <<>>]
\* get_perms falling back to the restricted policy without reporting it.
get_perms_silent_fallback(fs, path, std_grps, restrict_grps) ==
    LET grp_name == get_grp(fs, path)
    IN IF grp_name \in std_grps
       THEN [perms |-> STD_PERMS, grp_name |-> grp_name, errors |-> <<>>]
       ELSE [perms |-> RESTRICTED_PERMS, grp_name |-> grp_name, errors |-> <<>>]

get_perms(fs, path, std_grps, restrict_grps) ==
    LET grp_name == get_grp(fs, path)
    IN IF grp_name \in std_grps
       THEN [perms |-> STD_PERMS, grp_name |-> grp_name, errors |-> <<>>]
       ELSE IF grp_name \in DOMAIN restrict_grps
       THEN [perms |-> RESTRICTED_PERMS, grp_name |-> grp_name, errors |-> <<>>]
       ELSE [perms |-> RESTRICTED_PERMS, grp_name |-> grp_name,
             errors |-> <<<<"unknown_group", grp_name,
                            std_grps \cup DOMAIN restrict_grps>>>>]
\* check_op reporting a permission as fixed without calling os.chmod.
check_op_without_chmod(fs, uid, path, ok_owners, want_perms, change) ==
    LET s == fs[path]
        owner == PwName[s.uid]
        owner_passed == owner \in ok_owners
        owner_errors ==
            IF owner_passed THEN <<>> ELSE <<<<"owner", path, owner, ok_owners>>>>
        can_change == uid = s.uid
        cur_perms == S_IMODE(StMode(s))
        fix == cur_perms # want_perms /\ change /\ can_change
        perms_passed == cur_perms = want_perms \/ fix
        perms_errors ==
            IF perms_passed THEN <<>> ELSE <<<<"mode", path, cur_perms, want_perms>>>>
    IN [owner_passed |-> owner_passed,
        perms_passed |-> perms_passed,
        errors |-> owner_errors \o perms_errors,
        fs |-> fs]

\* check_op changing permissions without the can_change pre-check.
check_op_without_can_change(fs, uid, path, ok_owners, want_perms, change) ==
    LET s == fs[path]
        owner == PwName[s.uid]
        owner_passed == owner \in ok_owners
        owner_errors ==
            IF owner_passed THEN <<>> ELSE <<<<"owner", path, owner, ok_owners>>>>
        cur_perms == S_IMODE(StMode(s))
        fix == cur_perms # want_perms /\ change
        perms_passed == cur_perms = want_perms \/ fix
        perms_errors ==
            IF perms_passed THEN <<>> ELSE <<<<"mode", path, cur_perms, want_perms>>>>
    IN [owner_passed |-> owner_passed,
        perms_passed |-> perms_passed,
        errors |-> owner_errors \o perms_errors,
        fs |-> IF fix THEN Chmod(fs, path, want_perms) ELSE fs]

\* check_op; `uid` is os.getuid().  The result carries the filesystem after
\* the call.
check_op(fs, uid, path, ok_owners, want_perms, change) ==
    LET s == fs[path]
        owner == PwName[s.uid]
        owner_passed == owner \in ok_owners
        owner_errors ==
            IF owner_passed THEN <<>> ELSE <<<<"owner", path, owner, ok_owners>>>>
        can_change == uid = s.uid
        cur_perms == S_IMODE(StMode(s))
        fix == cur_perms # want_perms /\ change /\ can_change
        perms_passed == cur_perms = want_perms \/ fix
        perms_errors ==
            IF perms_passed THEN <<>> ELSE <<<<"mode", path, cur_perms, want_perms>>>>
    IN [owner_passed |-> owner_passed,
        perms_passed |-> perms_passed,
        errors |-> owner_errors \o perms_errors,
        fs |-> IF fix THEN Chmod(fs, path, want_perms) ELSE fs]
\* check_gop storing each verdict instead of and-ing it into the record's.
check_gop_overwrites(res, fs, uid, path, want_grp, ok_owners, want_perms, change, extend_errors) ==
    LET g == check_grp(fs, path, want_grp)
        op == check_op(fs, uid, path, ok_owners, want_perms, change)
        new_errors == IF extend_errors THEN g.errors \o op.errors ELSE <<>>
    IN [res |-> [res EXCEPT !.group_ok = g.ok,
                            !.owner_ok = op.owner_passed,
                            !.perms_ok = op.perms_passed,
                            !.errors = res.errors \o new_errors],
        fs |-> op.fs,
        grp_ok |-> g.ok, owner_ok |-> op.owner_passed, perms_ok |-> op.perms_passed]

\* check_gop: the record and the filesystem after the call, and the three
\* verdicts it returns.
check_gop(res, fs, uid, path, want_grp, ok_owners, want_perms, change, extend_errors) ==
    LET g == check_grp(fs, path, want_grp)
        op == check_op(fs, uid, path, ok_owners, want_perms, change)
        new_errors == IF extend_errors THEN g.errors \o op.errors ELSE <<>>
    IN [res |-> [res EXCEPT !.group_ok = res.group_ok /\ g.ok,
                            !.owner_ok = res.owner_ok /\ op.owner_passed,
                            !.perms_ok = res.perms_ok /\ op.perms_passed,
                            !.errors = res.errors \o new_errors],
        fs |-> op.fs,
        grp_ok |-> g.ok, owner_ok |-> op.owner_passed, perms_ok |-> op.perms_passed]

\* What os.scandir(dir) reports, as os.walk splits it: the entries that are
\* directories and those that are not, each in sorted order.
Dirnames(fs, dir) == SortPaths({p \in Children(fs, dir) : IsDir(fs, p)})
Filenames(fs, dir) == SortPaths({p \in Children(fs, dir) : ~IsDir(fs, p)})
\* The loop of walk_check passing extend_errors = True whatever verbose is.
RECURSIVE WalkLoop_always_extends(_, _, _, _, _, _, _, _, _)
WalkLoop_always_extends(acc, todo, uid, want_grp, ok_owners, want_dir_perms, want_file_perms, change, verbose) ==
    IF todo = <<>> \/ acc.raised THEN acc
    ELSE IF StatRaises(acc.fs, uid, Head(todo)) THEN [acc EXCEPT !.raised = TRUE]
    ELSE LET node == Head(todo)
             want == IF IsDir(acc.fs, node) THEN want_dir_perms ELSE want_file_perms
             r == check_gop(acc.res, acc.fs, uid, node, want_grp, ok_owners, want,
                            change, TRUE)
         IN WalkLoop_always_extends(
                [res |-> r.res, fs |-> r.fs,
                 g |-> acc.g /\ r.grp_ok,
                 o |-> acc.o /\ r.owner_ok,
                 p |-> acc.p /\ r.perms_ok,
                 raised |-> FALSE],
                Tail(todo), uid, want_grp, ok_owners, want_dir_perms,
                want_file_perms, change, verbose)

\* The body of walk_check's loop for one (dirpath, _, filenames) of os.walk:
\* check_gop on `todo`, the directory and then its files, threading the
\* record, the filesystem and the running totals g, o, p.  The os.stat that
\* check_gop starts with raises on a node that does not resolve.
RECURSIVE WalkLoop(_, _, _, _, _, _, _, _, _)
WalkLoop(acc, todo, uid, want_grp, ok_owners, want_dir_perms, want_file_perms, change, verbose) ==
    IF todo = <<>> \/ acc.raised THEN acc
    ELSE IF StatRaises(acc.fs, uid, Head(todo)) THEN [acc EXCEPT !.raised = TRUE]
    ELSE LET node == Head(todo)
             want == IF IsDir(acc.fs, node) THEN want_dir_perms ELSE want_file_perms
             r == check_gop(acc.res, acc.fs, uid, node, want_grp, ok_owners, want,
                            change, verbose)
         IN WalkLoop([res |-> r.res, fs |-> r.fs,
                      g |-> acc.g /\ r.grp_ok,
                      o |-> acc.o /\ r.owner_ok,
                      p |-> acc.p /\ r.perms_ok,
                      raised |-> FALSE],
                     Tail(todo), uid, want_grp, ok_owners, want_dir_perms,
                     want_file_perms, change, verbose)

\* for dirpath, _, filenames in os.walk(root): ...  os.walk is top-down and
\* lazy: it lists a directory only when the loop has dealt with everything
\* before it, yields it with its files, then turns to its subdirectories in
\* order (`stack` holds the directories still to list).  A directory whose
\* os.scandir fails is passed over in silence, as onerror is None.
RECURSIVE Walk(_, _, _, _, _, _, _, _, _)
Walk(acc, stack, uid, want_grp, ok_owners, want_dir_perms, want_file_perms, change, verbose) ==
    IF stack = <<>> \/ acc.raised THEN acc
    ELSE LET top == Head(stack)
         IN IF ~CanList(acc.fs, uid, top)
            THEN Walk(acc, Tail(stack), uid, want_grp, ok_owners, want_dir_perms,
                      want_file_perms, change, verbose)
            ELSE Walk(WalkLoop(acc, <<top>> \o Filenames(acc.fs, top), uid, want_grp,
                               ok_owners, want_dir_perms, want_file_perms, change,
                               verbose),
                      Dirnames(acc.fs, top) \o Tail(stack), uid, want_grp, ok_owners,
                      want_dir_perms, want_file_perms, change, verbose)
\* The summary lines with the one for owner failures forgotten.
WalkSummary_without_owner(root, verbose, g, o, p) ==
    IF verbose THEN <<>>
    ELSE (IF ~g THEN <<<<"summary", root, "group">>>> ELSE <<>>)
         \o (IF ~p THEN <<<<"summary", root, "permission">>>> ELSE <<>>)

\* The summary lines walk_check adds after the loop.
WalkSummary(root, verbose, g, o, p) ==
    IF verbose THEN <<>>
    ELSE (IF ~g THEN <<<<"summary", root, "group">>>> ELSE <<>>)
         \o (IF ~o THEN <<<<"summary", root, "owner">>>> ELSE <<>>)
         \o (IF ~p THEN <<<<"summary", root, "permission">>>> ELSE <<>>)

\* walk_check: the record and the filesystem after the call, the totals
\* g, o, p, and whether the call raised instead of returning.
walk_check(res, fs, uid, root, want_grp, ok_owners, want_dir_perms, want_file_perms, change, verbose) ==
    LET w == Walk([res |-> res, fs |-> fs, g |-> TRUE, o |-> TRUE, p |-> TRUE,
                   raised |-> FALSE],
                  <<root>>, uid, want_grp, ok_owners,
                  want_dir_perms, want_file_perms, change, verbose)
    IN [res |-> [w.res EXCEPT !.errors = w.res.errors
                                  \o WalkSummary(root, verbose, w.g, w.o, w.p)],
        fs |-> w.fs, g |-> w.g, o |-> w.o, p |-> w.p, raised |-> w.raised]
\* compute_result_success with one verdict, readme_proc_desc, left out.
compute_result_success_without_proc_desc(r) ==
    r.group_ok /\ r.owner_ok /\ r.perms_ok /\ r.dir_clean /\ r.readme_exists
    /\ r.readme_desc

compute_result_success(r) ==
    r.group_ok /\ r.owner_ok /\ r.perms_ok /\ r.dir_clean /\ r.readme_exists
    /\ r.readme_desc /\ r.readme_proc_desc

\* ---------------------------------------------------------------- state

VARIABLES
    fs,         \* the filesystem: path -> node
    fs0,        \* the filesystem as the run found it (history)
    uid,        \* os.getuid() of the checking process
    args,       \* the arguments of the call under way
    pc,         \* where the call stands
    res,        \* check_dir's DirResult
    perms,      \* check_dir's local `perms`
    grp_name,   \* check_dir's local `grp_name`
    readme,     \* check_dir's local `readme`: the stripped lines
    calls       \* what the calls of check_op / walk_check made so far returned

vars == <<fs, fs0, uid, args, pc, res, perms, grp_name, readme, calls>>

\* Optional[x]: None is <<>>, a value x is <<x>>.
None == <<>>
Some(x) == <<x>>
\* The record with every verdict created true.
InitRes_all_true(path) ==
    [basename |-> Basename(path),
     description |-> None,
     group_ok |-> TRUE,
     group |-> None,
     owner_ok |-> TRUE,
     perms_ok |-> TRUE,
     dir_clean |-> TRUE,
     readme_exists |-> TRUE,
     readme_path |-> None,
     readme_desc |-> TRUE,
     readme_proc_desc |-> TRUE,
     errors |-> <<>>]

\* The record check_dir defines upfront (size_raw and size_human left out).
InitRes(path) ==
    [basename |-> Basename(path),
     description |-> None,
     group_ok |-> TRUE,
     group |-> None,
     owner_ok |-> TRUE,
     perms_ok |-> TRUE,
     dir_clean |-> FALSE,
     readme_exists |-> FALSE,
     readme_path |-> None,
     readme_desc |-> FALSE,
     readme_proc_desc |-> FALSE,
     errors |-> <<>>]

\* ------------------------------------------------------------- inputs

Root == <<N_corpus>>
OriginalDir == Join(Root, N_original)
ProcessedDir == Join(Root, N_processed)
ReadmeFn == Join(Root, N_README)

\* README.md contents: a title and nothing but blank lines; a description
\* naming the variant "tk"; a description and a line naming "tk" and "r".
ReadmeTexts ==
    { << <<"#">>, <<" ">> >>,
      << <<"#">>, <<>>, <<" ", "t", "k", " ">> >>,
      << <<"#", " ", "c">>, <<"t", "k">>, <<"r">> >> }

\* The policy get_perms resolves for a root owned by group `gid`.
PolicyOf(gid) == IF GrName[gid] \in StdGrps THEN STD_PERMS ELSE RESTRICTED_PERMS

\* A collection laid out as asked, every node owned by sg01, in the root's
\* group and with the permission its policy expects.
\*   text: None or Some(lines of README.md);  stray: names of further entries
\*   of the root;  nfiles: 0 for no original/, else its number of files;
\*   variants: None for no processed/, else Some(names of its subdirectories).
BuildFs(gid, text, stray, nfiles, variants) ==
    LET P == PolicyOf(gid)
        dir(perm) == Node("dir", 1000, gid, perm, <<>>)
        file(perm, lines) == Node("file", 1000, gid, perm, lines)
        paths ==
            {Root}
            \cup (IF text = None THEN {} ELSE {ReadmeFn})
            \cup {Join(Root, n) : n \in stray}
            \cup (IF nfiles = 0 THEN {}
                  ELSE {OriginalDir} \cup {Join(OriginalDir, FileName(i)) : i \in 1..nfiles})
            \cup (IF variants = None THEN {}
                  ELSE {ProcessedDir} \cup {Join(ProcessedDir, v) : v \in variants[1]})
    IN [p \in paths |->
            IF p = Root THEN dir(P.top)
            ELSE IF p = ReadmeFn THEN file(P.readme, text[1])
            ELSE IF Len(p) = 2 /\ p[2] \in stray THEN file(P.contents_file, <<>>)
            ELSE IF p = OriginalDir \/ p = ProcessedDir THEN dir(P.contents_dir)
            ELSE IF p[2] = N_processed THEN dir(P.contents_dir)
            ELSE file(P.contents_file, <<>>)]

\* A permission other than `want`: world access dropped where it is wanted,
\* granted where it is not.
WrongPerm(want) ==
    IF want = PERM_ALL_RX THEN PERM_UG_RX
    ELSE IF want = PERM_ALL_R THEN PERM_UG_R
    ELSE PERM_ALL_RX

OtherGid(gid) == IF gid = 200 THEN 201 ELSE 200

\* `f` itself, and `f` with one node's owner, group or permission changed
\* (the root keeps its group: it is the group the collection is checked for).
Deviations(f) ==
    {f} \cup
    { [f EXCEPT ![p] = [@ EXCEPT !.uid = u,
                                 !.gid = IF g THEN OtherGid(@) ELSE @,
                                 !.perm = IF m THEN WrongPerm(@) ELSE @]] :
        p \in DOMAIN f, u \in Uids, g \in BOOLEAN, m \in BOOLEAN }

\* A path that is a plain file where a collection is expected.
FileAtTop == (Root :> Node("file", 1000, 200, PERM_ALL_R, <<>>))

StrayChoices == {{}, {N_scratch}, {N_hidden}}
VariantChoices == {None, Some({N_tk}), Some({N_tk, N_raw})}

DirInputs ==
    UNION { {f \in Deviations(BuildFs(gid, text, stray, nfiles, variants)) :
                f[Root].gid = gid} :
            gid \in Gids,
            text \in {None} \cup {Some(t) : t \in ReadmeTexts},
            stray \in StrayChoices,
            nfiles \in 0..MaxFiles,
            variants \in VariantChoices }

FsInputs == {FileAtTop} \cup DirInputs

\* ------------------------------------------------------------ check_dir

Init ==
    /\ fs \in FsInputs
    /\ fs0 = fs
    /\ uid \in Uids
    /\ args \in [path : {Root}, fix_perms : BOOLEAN, verbose : BOOLEAN]
    /\ pc = "isdir"
    /\ res = InitRes(Root)
    /\ perms = None
    /\ grp_name = None
    /\ readme = None
    /\ calls = <<>>

AddError(r, e) == [r EXCEPT !.errors = Append(@, e)]

\* if not os.path.isdir(path): ... return res
NotADirectory ==
    /\ pc = "isdir"
    /\ ~isdir(fs, uid, args.path)
    /\ res' = AddError(res, <<"not_a_directory">>)
    /\ pc' = "done"
    /\ UNCHANGED <<fs, fs0, uid, args, perms, grp_name, readme, calls>>

IsADirectory ==
    /\ pc = "isdir"
    /\ isdir(fs, uid, args.path)
    /\ pc' = "get_perms"
    /\ UNCHANGED <<fs, fs0, uid, args, res, perms, grp_name, readme, calls>>

\* get_perms reports an error: group_ok = False, return res
UnknownGroup ==
    /\ pc = "get_perms"
    /\ LET r == get_perms(fs, args.path, StdGrps, RestrictedGrps)
       IN /\ Len(r.errors) > 0
          /\ res' = [res EXCEPT !.group_ok = FALSE, !.errors = @ \o r.errors]
          /\ perms' = Some(r.perms)
          /\ grp_name' = Some(r.grp_name)
    /\ pc' = "done"
    /\ UNCHANGED <<fs, fs0, uid, args, readme, calls>>

KnownGroup ==
    /\ pc = "get_perms"
    /\ LET r == get_perms(fs, args.path, StdGrps, RestrictedGrps)
       IN /\ Len(r.errors) = 0
          /\ res' = [res EXCEPT !.group = Some(r.grp_name)]
          /\ perms' = Some(r.perms)
          /\ grp_name' = Some(r.grp_name)
    /\ pc' = "top"
    /\ UNCHANGED <<fs, fs0, uid, args, readme, calls>>

\* check_gop(res, path, grp_name, ok_owners, perms['top'], fix_perms)
CheckTop ==
    /\ pc = "top"
    /\ LET r == check_gop(res, fs, uid, args.path, grp_name[1], OkOwners,
                          perms[1].top, args.fix_perms, TRUE)
       IN /\ res' = r.res
          /\ fs' = r.fs
    /\ pc' = "clean"
    /\ UNCHANGED <<fs0, uid, args, perms, grp_name, readme, calls>>

\* The loop over glob(path/*) that decides dir_clean.
RECURSIVE CleanLoop(_, _)
CleanLoop(r, inners) ==
    IF inners = <<>> THEN r
    ELSE LET inner_basename == Basename(Head(inners))
         IN CleanLoop(IF ~InList(inner_basename, CLEAN_DIR_WHITELIST)
                      THEN AddError([r EXCEPT !.dir_clean = FALSE],
                                    <<"bad_entry", inner_basename>>)
                      ELSE r,
                      Tail(inners))

\* res['dir_clean'] = True
SetDirClean ==
    /\ pc = "clean"
    /\ res' = [res EXCEPT !.dir_clean = TRUE]
    /\ pc' = "entries"
    /\ UNCHANGED <<fs, fs0, uid, args, perms, grp_name, readme, calls>>

\* for inner in glob.glob(os.path.join(path, '*')): ...
DirClean ==
    /\ pc = "entries"
    /\ res' = CleanLoop(res, Glob(fs, uid, args.path))
    /\ pc' = "readme"
    /\ UNCHANGED <<fs, fs0, uid, args, perms, grp_name, readme, calls>>

\* if not os.path.isfile(readme_fn): ... return res
MissingReadme ==
    /\ pc = "readme"
    /\ ~isfile(fs, uid, Join(args.path, N_README))
    /\ res' = AddError(res, <<"missing_readme">>)
    /\ pc' = "done"
    /\ UNCHANGED <<fs, fs0, uid, args, perms, grp_name, readme, calls>>

ReadmeExists ==
    /\ pc = "readme"
    /\ isfile(fs, uid, Join(args.path, N_README))
    /\ res' = [res EXCEPT !.readme_exists = TRUE,
                          !.readme_path = Some(Join(args.path, N_README))]
    /\ pc' = "readme_gop"
    /\ UNCHANGED <<fs, fs0, uid, args, perms, grp_name, readme, calls>>

\* check_gop(res, readme_fn, grp_name, ok_owners, perms['readme'], fix_perms)
CheckReadme ==
    /\ pc = "readme_gop"
    /\ LET r == check_gop(res, fs, uid, res.readme_path[1], grp_name[1], OkOwners,
                          perms[1].readme, args.fix_perms, TRUE)
       IN /\ res' = r.res
          /\ fs' = r.fs
    /\ pc' = "desc"
    /\ UNCHANGED <<fs0, uid, args, perms, grp_name, readme, calls>>

\* [line.strip() for line in f.readlines()]
StripLines(lines) == [i \in 1..Len(lines) |-> Strip(lines[i])]

\* The first non-empty line after the first, or None.
RECURSIVE FirstNonEmpty(_)
FirstNonEmpty(lines) ==
    IF lines = <<>> THEN None
    ELSE IF Len(Head(lines)) > 0 THEN Some(Head(lines))
    ELSE FirstNonEmpty(Tail(lines))

Description(lines) == IF lines = <<>> THEN None ELSE FirstNonEmpty(Tail(lines))

\* Read the readme, take the description, set readme_desc.  open() raises
\* on a readme the process may not read.
ReadDescription ==
    /\ pc = "desc"
    /\ IF OpenRaises(fs, uid, res.readme_path[1])
       THEN /\ pc' = "raised"
            /\ UNCHANGED <<res, readme>>
       ELSE LET lines == StripLines(fs[res.readme_path[1]].lines)
                desc == Description(lines)
                r == [res EXCEPT !.description = desc, !.readme_desc = desc # None]
            IN /\ readme' = Some(lines)
               /\ res' = IF r.readme_desc THEN r
                         ELSE AddError(r, <<"missing_description">>)
               /\ pc' = "walk_original"
    /\ UNCHANGED <<fs, fs0, uid, args, perms, grp_name, calls>>

\* walk_check(res, path/original, ...)
WalkOriginal ==
    /\ pc = "walk_original"
    /\ LET r == walk_check(res, fs, uid, Join(args.path, N_original), grp_name[1],
                           OkOwners, perms[1].contents_dir, perms[1].contents_file,
                           args.fix_perms, args.verbose)
       IN /\ res' = r.res
          /\ fs' = r.fs
          /\ pc' = IF r.raised THEN "raised" ELSE "processed"
    /\ UNCHANGED <<fs0, uid, args, perms, grp_name, readme, calls>>

\* res['readme_proc_desc'] = True
SetProcDesc ==
    /\ pc = "processed"
    /\ res' = [res EXCEPT !.readme_proc_desc = TRUE]
    /\ pc' = "isdir_processed"
    /\ UNCHANGED <<fs, fs0, uid, args, perms, grp_name, readme, calls>>

\* if not os.path.isdir(processed_dir): return res
NoProcessed ==
    /\ pc = "isdir_processed"
    /\ ~isdir(fs, uid, Join(args.path, N_processed))
    /\ pc' = "done"
    /\ UNCHANGED <<fs, fs0, uid, args, res, perms, grp_name, readme, calls>>
\* The loop with its test inverted: `in` where `not in` is meant.
RECURSIVE VariantLoop_inverted(_, _, _)
VariantLoop_inverted(r, subdirs, full_readme) ==
    IF subdirs = <<>> THEN r
    ELSE LET p_subdir_basename == Basename(Head(subdirs))
         IN VariantLoop_inverted(
                IF IsSubstring(p_subdir_basename, full_readme)
                THEN AddError([r EXCEPT !.readme_proc_desc = FALSE],
                              <<"missing_variant", p_subdir_basename>>)
                ELSE r,
                Tail(subdirs), full_readme)

\* The loop over glob(processed/*) that looks each name up in the readme.
RECURSIVE VariantLoop(_, _, _)
VariantLoop(r, subdirs, full_readme) ==
    IF subdirs = <<>> THEN r
    ELSE LET p_subdir_basename == Basename(Head(subdirs))
         IN VariantLoop(IF ~IsSubstring(p_subdir_basename, full_readme)
                        THEN AddError([r EXCEPT !.readme_proc_desc = FALSE],
                                      <<"missing_variant", p_subdir_basename>>)
                        ELSE r,
                        Tail(subdirs), full_readme)

\* processed/ exists: check that the readme names every entry of it.
ProcessedVariants ==
    /\ pc = "isdir_processed"
    /\ isdir(fs, uid, Join(args.path, N_processed))
    /\ res' = VariantLoop(res, Glob(fs, uid, Join(args.path, N_processed)),
                          JoinSpace(readme[1]))
    /\ pc' = "walk_processed"
    /\ UNCHANGED <<fs, fs0, uid, args, perms, grp_name, readme, calls>>

\* walk_check(res, processed_dir, ...)
WalkProcessed ==
    /\ pc = "walk_processed"
    /\ LET r == walk_check(res, fs, uid, Join(args.path, N_processed), grp_name[1],
                           OkOwners, perms[1].contents_dir, perms[1].contents_file,
                           args.fix_perms, args.verbose)
       IN /\ res' = r.res
          /\ fs' = r.fs
          /\ pc' = IF r.raised THEN "raised" ELSE "done"
    /\ UNCHANGED <<fs0, uid, args, perms, grp_name, readme, calls>>

Next ==
    \/ NotADirectory
    \/ IsADirectory
    \/ UnknownGroup
    \/ KnownGroup
    \/ CheckTop
    \/ SetDirClean
    \/ DirClean
    \/ MissingReadme
    \/ ReadmeExists
    \/ CheckReadme
    \/ ReadDescription
    \/ WalkOriginal
    \/ SetProcDesc
    \/ NoProcessed
    \/ ProcessedVariants
    \/ WalkProcessed

Spec == Init /\ [][Next]_vars

\* ---------------------------------------------- check_op, called alone

\* Calls of check_op made on the one node.
MaxCalls == 2

PermChoices == {PERM_ALL_R, PERM_ALL_RX, PERM_UG_R, PERM_UG_RX}

InitOp ==
    /\ \E kind \in {"dir", "file"}, u \in Uids, perm \in PermChoices :
           fs = (Root :> Node(kind, u, 200, perm, <<>>))
    /\ fs0 = fs
    /\ uid \in Uids
    /\ args \in [path : {Root}, ok_owners : {{"sg01"}, {"sg01", "mbf"}},
                 want_perms : PermChoices, change : BOOLEAN]
    /\ pc = "check_op"
    /\ res = InitRes(Root)
    /\ perms = None
    /\ grp_name = None
    /\ readme = None
    /\ calls = <<>>

\* One run of check_op(path, ok_owners, want_perms, change).
CallCheckOp ==
    /\ pc = "check_op"
    /\ Len(calls) < MaxCalls
    /\ LET r == check_op(fs, uid, args.path, args.ok_owners, args.want_perms,
                         args.change)
       IN /\ calls' = Append(calls, [owner_passed |-> r.owner_passed,
                                     perms_passed |-> r.perms_passed,
                                     errors |-> r.errors])
          /\ fs' = r.fs
    /\ UNCHANGED <<fs0, uid, args, pc, res, perms, grp_name, readme>>

NextOp == CallCheckOp

SpecOp == InitOp /\ [][NextOp]_vars

\* -------------------------------------------- walk_check, called alone

\* The permissions found on the nodes walked: the two asked for, r-xr-x---
\* and, on a directory, ---------, which lets no one list it.
WalkPerms == {PERM_ALL_R, PERM_ALL_RX, PERM_UG_RX, 0}

\* The kinds the paths of a walked subtree have.
WalkKind(p) == IF p = OriginalDir \/ Basename(p) = N_sub THEN "dir" ELSE "file"

\* The subtrees walked: a root directory with up to MaxWalkFiles files and,
\* or not, one subdirectory; owner, group and permission of every node free.
WalkTrees ==
    UNION { { f \in [ {OriginalDir}
                      \cup {Join(OriginalDir, FileName(i)) : i \in 1..n}
                      \cup (IF sub THEN {Join(OriginalDir, N_sub)} ELSE {})
                      -> [kind : {"any"}, uid : Uids, gid : {200, 201},
                          perm : WalkPerms, lines : {<<>>}] ] :
                \A p \in DOMAIN f :
                    WalkKind(p) = "file" => f[p].perm \in {PERM_ALL_R, PERM_ALL_RX} } :
            n \in 0..MaxWalkFiles, sub \in BOOLEAN }

WithKinds(f) == [p \in DOMAIN f |-> [f[p] EXCEPT !.kind = WalkKind(p)]]

\* The records walk_check is handed: one as check_dir creates it, and one
\* whose group_ok, owner_ok and perms_ok an earlier check has set false.
WalkRecords ==
    {InitRes(Root),
     [InitRes(Root) EXCEPT !.group_ok = FALSE, !.owner_ok = FALSE,
                           !.perms_ok = FALSE]}

InitWalk ==
    /\ \E f \in WalkTrees : fs = WithKinds(f)
    /\ fs0 = fs
    /\ uid \in Uids
    /\ args \in [res : WalkRecords, root : {OriginalDir}, want_grp : {"nlp"},
                 ok_owners : {OkOwners},
                 want_dir_perms : {PERM_ALL_RX}, want_file_perms : {PERM_ALL_R},
                 change : BOOLEAN, verbose : BOOLEAN]
    /\ pc = "walk_check"
    /\ res = args.res
    /\ perms = None
    /\ grp_name = None
    /\ readme = None
    /\ calls = <<>>

\* One run of walk_check(res, root, want_grp, ok_owners, want_dir_perms,
\* want_file_perms, change, verbose).
CallWalkCheck ==
    /\ pc = "walk_check"
    /\ LET r == walk_check(res, fs, uid, args.root, args.want_grp, args.ok_owners,
                           args.want_dir_perms, args.want_file_perms,
                           args.change, args.verbose)
       IN /\ res' = r.res
          /\ fs' = r.fs
          /\ calls' = IF r.raised THEN calls
                      ELSE Append(calls, [g |-> r.g, o |-> r.o, p |-> r.p])
          /\ pc' = IF r.raised THEN "raised" ELSE "done"
    /\ UNCHANGED <<fs0, uid, args, perms, grp_name, readme>>

NextWalk == CallWalkCheck

SpecWalk == InitWalk /\ [][NextWalk]_vars

\* --------------------------------------------------------------- check

\* base_dir, the directory whose entries are the collections.
Base == <<>>

\* The collection at Root, moved to the top-level entry `name`.
At(f, name) ==
    [p \in {<<name>> \o Tail(q) : q \in DOMAIN f} |-> f[<<N_corpus>> \o Tail(p)]]

\* A collection laid out as asked: a README.md that names both variants, one
\* file under original/, the variants tk and r under processed/.
Tidy(gid) ==
    BuildFs(gid, Some(<< <<"#", " ", "c">>, <<"t", "k">>, <<"r">> >>), {}, 1,
            Some({N_tk, N_raw}))

Data == Join(OriginalDir, FileName(1))

\* What is found where a collection is expected:
\*   a tidy collection;  a plain file;  a collection of an unknown group;
\*   one without README.md and with a stray entry;  one without processed/
\*   whose data file has another owner and group;  one whose data file is
\*   executable;  one whose README.md only its owner, mbf, may read;
\*   one whose original/ has lost its search bits.
Collections ==
    { Tidy(200),
      FileAtTop,
      Tidy(202),
      BuildFs(200, None, {N_scratch}, 1, None),
      [BuildFs(200, Some(<< <<"#">>, <<"c">> >>), {}, 1, None)
          EXCEPT ![Data].uid = 1001, ![Data].gid = 201],
      [Tidy(200) EXCEPT ![Data].perm = PERM_ALL_RX],
      [Tidy(200) EXCEPT ![ReadmeFn].uid = 1001, ![ReadmeFn].perm = S_IRUSR],
      [Tidy(200) EXCEPT ![OriginalDir].perm = PERM_ALL_R] }

\* The entries of base_dir besides the collections: none, the three
\* whitelisted names, a name with a leading dot, or all of these.
Listed ==
    (<<N_nobackup>> :> Node("dir", 1001, 202, PERM_UG_RX, <<>>))
    @@ (<<N_staging>> :> Node("dir", 1000, 200, PERM_ALL_RX, <<>>))
    @@ (<<N_README>> :> Node("file", 1000, 200, PERM_ALL_R, <<>>))
Dotted == (<<N_hidden>> :> Node("dir", 1000, 200, PERM_ALL_RX, <<>>))
Empty == [p \in {} |-> Node("dir", 1000, 200, PERM_ALL_RX, <<>>)]

Besides == {Empty, Listed, Dotted, Listed @@ Dotted}

BaseInputs ==
    { (Base :> Node("dir", 1000, 200, PERM_ALL_RX, <<>>))
          @@ At(b, N_books) @@ At(c, N_corpus) @@ e :
        b \in Collections, c \in Collections, e \in Besides }

InitCheck ==
    /\ fs \in BaseInputs
    /\ fs0 = fs
    /\ uid \in Uids
    /\ args \in [base_dir : {Base}, fix_perms : BOOLEAN, verbose : BOOLEAN,
                 paths : {None}, path : {None}]
    /\ pc = "get_dirs"
    /\ res = None
    /\ perms = None
    /\ grp_name = None
    /\ readme = None
    /\ calls = <<>>

\* paths = get_dirs(base_dir)
GetDirs ==
    /\ pc = "get_dirs"
    /\ args' = [args EXCEPT !.paths = get_dirs(fs, uid, args.base_dir)]
    /\ pc' = "next"
    /\ UNCHANGED <<fs, fs0, uid, res, perms, grp_name, readme, calls>>

\* The list comprehension calls check_dir on the next path.  check_dir
\* creates its record and measures the size; get_size may raise.
CallCheckDir ==
    /\ pc = "next"
    /\ Len(calls) < Len(args.paths)
    /\ LET p == args.paths[Len(calls) + 1]
       IN /\ args' = [args EXCEPT !.path = p]
          /\ res' = InitRes(p)
          /\ pc' = IF get_size_raises(fs, uid, p) THEN "raised" ELSE "isdir"
    /\ perms' = None
    /\ grp_name' = None
    /\ readme' = None
    /\ UNCHANGED <<fs, fs0, uid, calls>>

\* check_dir returns its record, which joins the list.
ReturnRecord ==
    /\ pc = "done"
    /\ calls' = Append(calls, res)
    /\ pc' = "next"
    /\ UNCHANGED <<fs, fs0, uid, args, res, perms, grp_name, readme>>

\* No path is left: check returns the list.
ReturnList ==
    /\ pc = "next"
    /\ Len(calls) = Len(args.paths)
    /\ pc' = "returned"
    /\ UNCHANGED <<fs, fs0, uid, args, res, perms, grp_name, readme, calls>>

NextCheck ==
    \/ GetDirs
    \/ CallCheckDir
    \/ Next
    \/ ReturnRecord
    \/ ReturnList

SpecCheck == InitCheck /\ [][NextCheck]_vars

\* ================================================================ claims

Verdicts ==
    {"group_ok", "owner_ok", "perms_ok", "dir_clean", "readme_exists",
     "readme_desc", "readme_proc_desc"}

KnownGrps == StdGrps \cup DOMAIN RestrictedGrps

\* How a finished run of check_dir came to its end, told from the filesystem.
NotDirExit == pc = "done" /\ ~IsDir(fs0, Root)
UnknownGroupExit ==
    pc = "done" /\ IsDir(fs0, Root) /\ get_grp(fs0, Root) \notin KnownGrps
Audited ==
    pc = "done" /\ IsDir(fs0, Root) /\ get_grp(fs0, Root) \in KnownGrps
MissingReadmeExit == Audited /\ ~IsFile(fs0, ReadmeFn)

\* The permission the policy of the collection expects of node p.
ExpectedPerm(f, p) ==
    LET P == PolicyOf(f[Root].gid)
    IN IF p = Root THEN P.top
       ELSE IF p = ReadmeFn THEN P.readme
       ELSE IF f[p].kind = "dir" THEN P.contents_dir
       ELSE P.contents_file

\* C1: for every record check_dir produces, compute_result_success is the
\* conjunction of the seven verdicts, and with any one verdict set to false
\* it is false.
C1_SuccessIsConjunction ==
    pc = "done" =>
        /\ compute_result_success(res) = (\A v \in Verdicts : res[v])
        /\ \A v \in Verdicts : ~compute_result_success([res EXCEPT ![v] = FALSE])

\* A finished record with all seven verdicts true.
C1_Witness == pc = "done" /\ \A v \in Verdicts : res[v]

\* C2 as claimed: on an early exit every verdict whose check was skipped is
\* true, and only the flag of the failed precondition is false.
C2_SkippedVerdictsTrue ==
    /\ NotDirExit =>
           res.dir_clean /\ res.readme_exists /\ res.readme_desc
           /\ res.readme_proc_desc
    /\ UnknownGroupExit =>
           ~res.group_ok /\ res.dir_clean /\ res.readme_exists /\ res.readme_desc
           /\ res.readme_proc_desc
    /\ MissingReadmeExit =>
           ~res.readme_exists /\ res.readme_desc /\ res.readme_proc_desc

\* C2, amended: on an early exit every verdict whose check was skipped holds
\* the value the record was created with: group_ok, owner_ok and perms_ok
\* true, dir_clean, readme_exists, readme_desc and readme_proc_desc false.
\* group_ok is false on the unknown-group exit.
C2_SkippedVerdictsKeepInitialValue ==
    /\ NotDirExit =>
           /\ res.group_ok /\ res.owner_ok /\ res.perms_ok
           /\ ~res.dir_clean /\ ~res.readme_exists /\ ~res.readme_desc
           /\ ~res.readme_proc_desc
    /\ UnknownGroupExit =>
           /\ ~res.group_ok /\ res.owner_ok /\ res.perms_ok
           /\ ~res.dir_clean /\ ~res.readme_exists /\ ~res.readme_desc
           /\ ~res.readme_proc_desc
    /\ MissingReadmeExit =>
           ~res.readme_exists /\ ~res.readme_desc /\ ~res.readme_proc_desc

\* A run that stopped for a missing README.md after finding the root clean.
C2_Witness == MissingReadmeExit /\ res.dir_clean

\* C3 as claimed: every verdict starts true and only ever changes from true
\* to false.
C3_VerdictsOnlyFall ==
    [][/\ pc = "isdir" => \A v \in Verdicts : res[v]
       /\ \A v \in Verdicts : res'[v] => res[v]]_vars

\* C3, amended: group_ok, owner_ok and perms_ok start true and only ever
\* change from true to false.  dir_clean, readme_exists, readme_desc and
\* readme_proc_desc start false; readme_exists and readme_desc only ever
\* change from false to true; dir_clean and readme_proc_desc are set true by
\* the one statement that starts their check, and only fall after it.
C3_VerdictsMonotone ==
    [][/\ pc = "isdir" =>
              /\ \A v \in {"group_ok", "owner_ok", "perms_ok"} : res[v]
              /\ \A v \in Verdicts \ {"group_ok", "owner_ok", "perms_ok"} : ~res[v]
       /\ \A v \in {"group_ok", "owner_ok", "perms_ok"} : res'[v] => res[v]
       /\ \A v \in {"readme_exists", "readme_desc"} : res[v] => res'[v]
       /\ (~res.dir_clean /\ res'.dir_clean) => pc = "clean"
       /\ (~res.readme_proc_desc /\ res'.readme_proc_desc) => pc = "processed"]_vars

\* A finished run in which perms_ok fell, dir_clean rose and fell again,
\* and readme_exists rose.
C3_Witness ==
    /\ pc = "done"
    /\ ~res.perms_ok /\ ~res.dir_clean /\ res.readme_exists
    /\ \E i \in 1..Len(res.errors) : res.errors[i][1] = "bad_entry"

\* C4: for a collection root whose group is in neither set, get_perms
\* returns the restricted policy and exactly one error naming the group;
\* check_dir sets group_ok false, records that error and returns with no
\* other check made: no step after get_perms is taken, the record is
\* otherwise as created and no node is changed.
C4_UnknownGroupStops ==
    (IsDir(fs0, Root) /\ get_grp(fs0, Root) \notin KnownGrps) =>
        LET r == get_perms(fs0, Root, StdGrps, RestrictedGrps)
        IN /\ r.perms = RESTRICTED_PERMS
           /\ Len(r.errors) = 1
           /\ r.errors[1][1] = "unknown_group"
           /\ r.errors[1][2] = get_grp(fs0, Root)
           /\ pc \in {"isdir", "get_perms", "done"}
           /\ fs = fs0
           /\ pc = "done" =>
                  res = [InitRes(Root) EXCEPT !.group_ok = FALSE,
                                              !.errors = r.errors]

\* A finished run on a root of unknown group, asked to fix permissions, that
\* holds a node of wrong permission owned by the checking process.
C4_Witness ==
    /\ UnknownGroupExit
    /\ args.fix_perms
    /\ \E p \in DOMAIN fs : fs[p].uid = uid /\ fs[p].perm # ExpectedPerm(fs, p)

\* C5 as claimed: for a node with wrong permission bits whose owner is an
\* acceptable owner, every run of check_op with change = True reports the
\* permission check passed with no error, and after the first run the bits
\* are the expected ones.
C5_RemediationIdempotent ==
    (/\ args.change
     /\ S_IMODE(StMode(fs0[args.path])) # args.want_perms
     /\ PwName[fs0[args.path].uid] \in args.ok_owners) =>
        /\ \A i \in 1..Len(calls) : calls[i].perms_passed /\ calls[i].errors = <<>>
        /\ Len(calls) >= 1 => S_IMODE(StMode(fs[args.path])) = args.want_perms

\* C5, amended: the same, for a node that the checking process owns as well.
C5_RemediationIdempotentWhenOwned ==
    (/\ args.change
     /\ S_IMODE(StMode(fs0[args.path])) # args.want_perms
     /\ PwName[fs0[args.path].uid] \in args.ok_owners
     /\ uid = fs0[args.path].uid) =>
        /\ \A i \in 1..Len(calls) : calls[i].perms_passed /\ calls[i].errors = <<>>
        /\ Len(calls) >= 1 => S_IMODE(StMode(fs[args.path])) = args.want_perms

\* Two runs made on a node of wrong permission that the process owns and
\* whose owner is acceptable.
C5_Witness ==
    /\ Len(calls) = 2
    /\ args.change
    /\ S_IMODE(StMode(fs0[args.path])) # args.want_perms
    /\ PwName[fs0[args.path].uid] \in args.ok_owners
    /\ uid = fs0[args.path].uid

\* C6: an audit run leaves the owner and group (and kind and contents) of
\* every node as they were and creates or removes none; a node's permission
\* bits change only when fix_perms is set, the bits differed from the
\* expected ones and the process's uid is the node's owner uid; with
\* fix_perms off the filesystem is as the run found it.
C6_OnlyPermissionsOfOwnNodesChange ==
    /\ DOMAIN fs = DOMAIN fs0
    /\ \A p \in DOMAIN fs0 :
           /\ fs[p].uid = fs0[p].uid
           /\ fs[p].gid = fs0[p].gid
           /\ fs[p].kind = fs0[p].kind
           /\ fs[p].lines = fs0[p].lines
           /\ fs[p].perm # fs0[p].perm =>
                  /\ args.fix_perms
                  /\ fs0[p].perm # ExpectedPerm(fs0, p)
                  /\ uid = fs0[p].uid
    /\ ~args.fix_perms => fs = fs0

\* A finished run that changed the permission of a node below the root.
C6_Witness ==
    /\ pc = "done"
    /\ \E p \in DOMAIN fs0 \ {Root} : fs[p].perm # fs0[p].perm

\* The nodes at or below `root`, when it is a directory.
Subtree(f, root) ==
    IF IsDir(f, root)
    THEN {p \in DOMAIN f : Len(p) >= Len(root) /\ SubSeq(p, 1, Len(root)) = root}
    ELSE {}

\* The permission walk_check is to find on node n.
WantPerm(n) ==
    IF fs0[n].kind = "dir" THEN args.want_dir_perms ELSE args.want_file_perms

\* The verdicts of node n, told from the filesystem as the walk found it.
NodeGroupOk(n) == GrName[fs0[n].gid] = args.want_grp
NodeOwnerOk(n) == PwName[fs0[n].uid] \in args.ok_owners
NodePermOk(n) == fs0[n].perm = WantPerm(n) \/ (args.change /\ uid = fs0[n].uid)

\* Directory d can be entered once walk_check has dealt with it.
SearchableAfter(d) ==
    LET after == IF args.change /\ uid = fs0[d].uid THEN WantPerm(d) ELSE fs0[d].perm
    IN Permits([fs0[d] EXCEPT !.perm = after], uid, S_IXUSR, S_IXGRP, S_IXOTH)

\* The directories from the walked root down to path p, p left out.
Above(p) == {SubSeq(p, 1, k) : k \in Len(args.root)..(Len(p) - 1)}

\* The nodes a walk that returns has visited: a directory os.walk could
\* list and reach, and the files of such a directory.
Visited ==
    {n \in Subtree(fs0, args.root) :
        /\ \A d \in Above(n) : MayRead(fs0, uid, d) /\ SearchableAfter(d)
        /\ fs0[n].kind = "dir" => MayRead(fs0, uid, n)}

\* The visited nodes that fail each category.
FailGroup == {n \in Visited : ~NodeGroupOk(n)}
FailOwner == {n \in Visited : ~NodeOwnerOk(n)}
FailPerm == {n \in Visited : ~NodePermOk(n)}

\* The number of times error e stands in the record.
Count(e) == Cardinality({i \in 1..Len(res.errors) : res.errors[i] = e})

\* C7: with verbose off, one call of walk_check adds at most 3 errors to the
\* record, each a summary line, and the summary line of a category once if
\* some visited node failed that category and not at all otherwise.
C7_SummaryBound ==
    (pc = "done" /\ ~args.verbose) =>
        /\ Len(res.errors) <= 3
        /\ \A i \in 1..Len(res.errors) : res.errors[i][1] = "summary"
        /\ Count(<<"summary", args.root, "group">>) = (IF FailGroup # {} THEN 1 ELSE 0)
        /\ Count(<<"summary", args.root, "owner">>) = (IF FailOwner # {} THEN 1 ELSE 0)
        /\ Count(<<"summary", args.root, "permission">>) = (IF FailPerm # {} THEN 1 ELSE 0)

\* A quiet walk of a subtree where three nodes fail the permission check and
\* every category fails somewhere.
C7_Witness ==
    /\ pc = "done" /\ ~args.verbose
    /\ Cardinality(FailPerm) >= 3
    /\ FailGroup # {} /\ FailOwner # {}
    /\ Len(res.errors) = 3

OtherBits(perm) == BitAnd(perm, 7)
PolicyFields == {"top", "readme", "contents_dir", "contents_file"}

\* The standard policy's four values are world-readable, and
\* world-executable for directories.
StandardIsWorldReadable ==
    get_grp(fs0, Root) \in StdGrps =>
        /\ \A k \in PolicyFields : BitAnd(perms[1][k], S_IROTH) = S_IROTH
        /\ \A k \in {"top", "contents_dir"} : BitAnd(perms[1][k], S_IXOTH) = S_IXOTH

\* C8 as claimed: for a collection of a restricted group each of the four
\* expected permissions has every 'other' bit clear; the standard policy's
\* four are world-readable.
C8_RestrictedHasNoWorldAccess ==
    perms # None =>
        /\ get_grp(fs0, Root) \in DOMAIN RestrictedGrps =>
               \A k \in PolicyFields : OtherBits(perms[1][k]) = 0
        /\ StandardIsWorldReadable

\* C8, amended: for a collection of a restricted group the expected
\* permissions of content directories and content files have every 'other'
\* bit clear, while those of the collection root and of README.md are the
\* standard policy's, world-readable; the standard policy's four are
\* world-readable.
C8_RestrictedContentsHaveNoWorldAccess ==
    perms # None =>
        /\ get_grp(fs0, Root) \in DOMAIN RestrictedGrps =>
               /\ \A k \in {"contents_dir", "contents_file"} :
                      OtherBits(perms[1][k]) = 0
               /\ OtherBits(perms[1].top) = S_IROTH + S_IXOTH
               /\ OtherBits(perms[1].readme) = S_IROTH
        /\ StandardIsWorldReadable

\* The policy of a collection of a restricted group has been resolved.
C8_Witness ==
    perms # None /\ pc = "top" /\ get_grp(fs0, Root) \in DOMAIN RestrictedGrps

HasError(e) == \E i \in 1..Len(res.errors) : res.errors[i] = e

AllowedNames == {N_original, N_processed, N_README}

\* The names of the entries of the root other than the three allowed.
Offending == {Basename(p) : p \in Children(fs0, Root)} \ AllowedNames

ReadmeText ==
    IF IsFile(fs0, ReadmeFn) THEN JoinSpace(StripLines(fs0[ReadmeFn].lines))
    ELSE <<>>

\* The names under processed/ missing from the README text.
Undocumented ==
    {Basename(p) : p \in {q \in Children(fs0, ProcessedDir) :
                             ~IsSubstring(Basename(q), ReadmeText)}}

\* C10 as claimed: in every record readme_proc_desc is false only if
\* processed/ is a directory and some name under it is no substring of the
\* README text, an error naming it; without processed/ the flag is true.
C10_ProcDescFalseOnlyIfUndocumented ==
    pc = "done" =>
        /\ ~res.readme_proc_desc =>
               /\ IsDir(fs0, ProcessedDir)
               /\ \E n \in Undocumented : HasError(<<"missing_variant", n>>)
        /\ ~IsDir(fs0, ProcessedDir) => res.readme_proc_desc

\* C10, amended: in the record of every collection that is a directory of a
\* known group and has README.md, readme_proc_desc is false only if
\* processed/ is a directory and some name under it is no substring of the
\* README text, an error naming it, and without processed/ the flag is
\* true; in every other record (not a directory, unknown group, README.md
\* missing) the flag is false whatever processed/ holds.
C10_ProcDescWhenReadmeExists ==
    /\ (Audited /\ IsFile(fs0, ReadmeFn)) =>
           /\ ~res.readme_proc_desc =>
                  /\ IsDir(fs0, ProcessedDir)
                  /\ \E n \in Undocumented : HasError(<<"missing_variant", n>>)
           /\ ~IsDir(fs0, ProcessedDir) => res.readme_proc_desc
    /\ (pc = "done" /\ ~(Audited /\ IsFile(fs0, ReadmeFn))) => ~res.readme_proc_desc

\* A collection whose README names the variant tk and not the variant r.
C10_Witness ==
    /\ Audited /\ IsFile(fs0, ReadmeFn)
    /\ ~res.readme_proc_desc
    /\ IsSubstring(N_tk, ReadmeText)
    /\ HasError(<<"missing_variant", N_raw>>)
    /\ ~HasError(<<"missing_variant", N_tk>>)


\* The three verdicts of the record after a walk that returned are those it
\* was handed, and-ed with the verdicts of every node of S; and every node
\* of S was held against the permission of its kind: one of another
\* permission either failed the check or was changed to that permission.
WalkFolds(S) ==
    pc = "done" =>
        /\ res.group_ok = (args.res.group_ok /\ \A n \in S : NodeGroupOk(n))
        /\ res.owner_ok = (args.res.owner_ok /\ \A n \in S : NodeOwnerOk(n))
        /\ res.perms_ok = (args.res.perms_ok /\ \A n \in S : NodePermOk(n))
        /\ calls[1].g = (\A n \in S : NodeGroupOk(n))
        /\ calls[1].o = (\A n \in S : NodeOwnerOk(n))
        /\ calls[1].p = (\A n \in S : NodePermOk(n))
        /\ \A n \in S : NodePermOk(n) => fs[n].perm = WantPerm(n)

\* C12 as claimed: walk_check audits every directory and every file at or
\* below the root against the permission of its kind, and after the walk
\* group_ok, owner_ok and perms_ok are their previous values and-ed with the
\* verdicts of all those nodes, so that one failing node anywhere below the
\* root makes its flag false.
C12_WalkAuditsEveryNode == WalkFolds(Subtree(fs0, args.root))

\* What does hold: the same of the nodes the walk visited.
WalkFoldsVisited == WalkFolds(Visited)

\* A walk that returned without having visited a node below its root.
SomeNodeNotVisited == pc = "done" /\ Visited # Subtree(fs0, args.root)


\* C13: in every record check_dir returns, whatever verbose and fix_perms
\* are, the error list is empty exactly when compute_result_success of the
\* record is true: a false verdict comes with at least one error and an
\* error with at least one false verdict.
C13_ErrorsIffFailure ==
    pc = "done" =>
        /\ (res.errors = <<>>) <=> compute_result_success(res)
        /\ (\E v \in Verdicts : ~res[v]) <=> Len(res.errors) > 0

\* A quiet run with remediation that changed a permission below original/
\* and returned a record without error, every verdict true.
C13_Witness ==
    /\ pc = "done" /\ ~args.verbose /\ args.fix_perms
    /\ \E p \in DOMAIN fs0 : Len(p) > 2 /\ fs[p].perm # fs0[p].perm
    /\ res.errors = <<>>
    /\ compute_result_success(res)


\* The entries of base_dir whose name is not whitelisted, in sorted order.
TopLevel ==
    SortPaths({p \in Children(fs0, Base) :
                  ~InList(Basename(p), WHITELIST_DIRS \o WHITELIST_FILES)})

\* Those of them that glob's "*" lists: the names without a leading dot.
TopLevelListed ==
    SortPaths({p \in Range(TopLevel) : Head(Basename(p)) # "."})

\* The records returned are those of `paths`, one each, in that order.
RecordsOf(paths) ==
    /\ Len(calls) = Len(paths)
    /\ \A i \in 1..Len(paths) : calls[i].basename = Basename(paths[i])

\* C11 as claimed: a run of check always completes, no failure of a
\* collection ending it before the remaining ones are audited, and returns
\* exactly one record for each entry of the base directory that is not
\* whitelisted, in sorted order.
C11_RunCompletesWithOneRecordPerEntry ==
    /\ pc # "raised"
    /\ pc = "returned" => RecordsOf(TopLevel)

\* What does hold: a run that returns, returns one record for each entry
\* that is not whitelisted and that glob lists, in sorted order.
ReturnedRunHasOneRecordPerListedEntry == pc = "returned" => RecordsOf(TopLevelListed)

\* No failure that check_dir reports ends the run: one that raised did so in
\* get_size, in os.stat or in open.
RaisedOnlyBySystemCall ==
    pc = "raised" =>
        \/ get_size_raises(fs, uid, args.path)
        \/ OpenRaises(fs, uid, Join(args.path, N_README))

\* A run that returned though its first collection failed, the second one
\* audited and found in order.
FailureDidNotStopRun ==
    /\ pc = "returned" /\ Len(calls) = 2
    /\ ~compute_result_success(calls[1])
    /\ compute_result_success(calls[2])

\* A run that ended in open(README.md) raising, du having succeeded.
RunEndedReadingReadme ==
    /\ pc = "raised"
    /\ ~get_size_raises(fs, uid, args.path)
    /\ res.readme_exists

\* A run that ended in the audit of its second collection, the record of the
\* first lost with it.
RunEndedAfterFirstRecord == pc = "raised" /\ Len(calls) = 1

\* Every record of the list has an empty error list exactly when it passes.
ReturnedRecordsErrorsIffFailure ==
    \A i \in 1..Len(calls) :
        (calls[i].errors = <<>>) <=> compute_result_success(calls[i])

====
